---- MODULE Spec2Model ----
(***************************************************************************)
(* Model of the docker daemon client of kraken (package dockerdaemon,      *)
(* src/unnamed/part_000): host resolution (parseHost, NewDockerClient),    *)
(* request construction and response handling (ImagePull, post).           *)
(*                                                                         *)
(* Go strings are TLA+ strings; Len, SubSeq and \o act on them as on       *)
(* sequences of bytes.  The inputs are ASCII, so len() in bytes is Len.    *)
(***************************************************************************)
EXTENDS Integers, Sequences, FiniteSets, TLC

VARIABLES args, res, cli, dialed, call, conn

vars == <<args, res, cli, dialed, call, conn>>

(***************************************************************************)
(* Bounds of the model and constants of the program.                       *)
(***************************************************************************)
\* Number of ImagePull calls that may run concurrently on the client.
NumCalls == 2

\* Largest number of body chunks the daemon writes into one response.
MaxChunks == 1

\* const _defaultTimeout = 32 * time.Second (in seconds).
defaultTimeout == 32

\* len(syscall.RawSockaddrUnix{}.Path) on linux.
SockPathLen == 108

\* The only status the executor accepts as success.
StatusOK == 200

(***************************************************************************)
(* package strings                                                         *)
(***************************************************************************)
MinOf(S) == CHOOSE i \in S : \A j \in S : i <= j

\* strings.Index, 1-based; 0 when sep does not occur.
Index(s, sep) ==
    IF \A i \in 1..(Len(s) - Len(sep) + 1) : SubSeq(s, i, i + Len(sep) - 1) # sep
    THEN 0
    ELSE CHOOSE i \in 1..(Len(s) - Len(sep) + 1) :
            /\ SubSeq(s, i, i + Len(sep) - 1) = sep
            /\ \A j \in 1..(i - 1) : SubSeq(s, j, j + Len(sep) - 1) # sep

\* strings.LastIndex, 1-based; 0 when sep does not occur.
LastIndex(s, sep) ==
    IF \A i \in 1..(Len(s) - Len(sep) + 1) : SubSeq(s, i, i + Len(sep) - 1) # sep
    THEN 0
    ELSE CHOOSE i \in 1..(Len(s) - Len(sep) + 1) :
            /\ SubSeq(s, i, i + Len(sep) - 1) = sep
            /\ \A j \in (i + 1)..(Len(s) - Len(sep) + 1) :
                  SubSeq(s, j, j + Len(sep) - 1) # sep

\* s[i-1:j] of Go, cut at the end of s.
Sub(s, i, j) == SubSeq(s, i, IF j > Len(s) THEN Len(s) ELSE j)

Contains(s, sub) == Index(s, sub) # 0

HasPrefix(s, p) == Len(s) >= Len(p) /\ SubSeq(s, 1, Len(p)) = p

\* strings.TrimPrefix: removes one leading occurrence of p.
TrimPrefix(s, p) ==
    IF HasPrefix(s, p) THEN SubSeq(s, Len(p) + 1, Len(s)) ELSE s

\* The pieces of s cut at position i, where a separator of length n starts;
\* i = 0 when there is no separator.
CutAt(s, i, n) ==
    IF i = 0 THEN <<s>> ELSE <<SubSeq(s, 1, i - 1), SubSeq(s, i + n, Len(s))>>

\* strings.SplitN(s, sep, 2): at most two pieces, cut at the first sep.
SplitN2(s, sep) == CutAt(s, Index(s, sep), Len(sep))

\* The part of s before the first sep (all of s when sep is absent).
Before(s, sep) == CutAt(s, Index(s, sep), Len(sep))[1]

\* The part of s from position i on; empty when i = 0.
FromAt(s, i) == IF i = 0 THEN "" ELSE SubSeq(s, i, Len(s))

\* The part of s after the first sep (empty when sep is absent).
After(s, sep) == FromAt(FromAt(s, Index(s, sep)), Len(sep) + 1)

\* The part of s from the first sep on (empty when sep is absent).
From(s, sep) == FromAt(s, Index(s, sep))

Digits == {"0", "1", "2", "3", "4", "5", "6", "7", "8", "9"}

Letters == {"a", "b", "c", "d", "e", "f", "g", "h", "i", "j", "k", "l", "m",
            "n", "o", "p", "q", "r", "s", "t", "u", "v", "w", "x", "y", "z"}

AllIn(s, S) == \A i \in 1..Len(s) : SubSeq(s, i, i) \in S

RECURSIVE Repeat(_, _)
\* strings.Repeat
Repeat(s, n) ==
    IF n = 0 THEN ""
    ELSE IF n % 2 = 1 THEN s \o Repeat(s, n - 1)
    ELSE Repeat(s \o s, n \div 2)

DigitOf(d) ==
    CASE d = 0 -> "0" [] d = 1 -> "1" [] d = 2 -> "2" [] d = 3 -> "3"
      [] d = 4 -> "4" [] d = 5 -> "5" [] d = 6 -> "6" [] d = 7 -> "7"
      [] d = 8 -> "8" [] d = 9 -> "9"

RECURSIVE Itoa(_)
\* The %d verb of fmt on a non-negative int.
Itoa(n) == IF n < 10 THEN DigitOf(n) ELSE Itoa(n \div 10) \o DigitOf(n % 10)

\* The backquote of the messages of parseHost and NewDockerClient; a TLA+
\* string cannot hold that character, an apostrophe stands for it.
BQ == "'"

\* The %q verb of fmt on a string without characters that need escaping.
Quote(s) == "\"" \o s \o "\""

(***************************************************************************)
(* Go error values: nil, or an error with a message.                       *)
(***************************************************************************)
NilErr == [isNil |-> TRUE, msg |-> ""]

Errorf(m) == [isNil |-> FALSE, msg |-> m]

(***************************************************************************)
(* package net/url, for the characters the inputs are made of: letters,    *)
(* digits, '.', '-', ':', '/', '?' and '%'.  No input has userinfo ('@'),  *)
(* an IPv6 literal ('['), a fragment ('#') or a control character.         *)
(***************************************************************************)
\* The escapes the inputs use, as pairs <<escape, byte>>.
EscapeTable == {<<"%3F", "?">>, <<"%2F", "/">>, <<"%3A", ":">>, <<"%25", "%">>}

IsEscape(e) == \E p \in EscapeTable : p[1] = e

Unhex(e) == (CHOOSE p \in EscapeTable : p[1] = e)[2]

\* s with the escape that starts at position i decoded and the rest as given.
DecodeAt(s, i, rest) == SubSeq(s, 1, i - 1) \o Unhex(Sub(s, i, i + 2)) \o rest

RECURSIVE PathUnescape(_)
\* url.unescape: decodes every %XX of s; s has no bad escape (BadEscapes).
PathUnescape(s) ==
    IF \A i \in 1..Len(s) : SubSeq(s, i, i) # "%" THEN s
    ELSE DecodeAt(s, Index(s, "%"),
                  PathUnescape(SubSeq(s, Index(s, "%") + 3, Len(s))))

\* The positions of s where a '%' does not start an escape that url.unescape
\* accepts: in a path any escape of the table, in a host only "%25".
BadEscapes(s, inHost) ==
    {i \in 1..Len(s) :
        /\ SubSeq(s, i, i) = "%"
        /\ IF inHost THEN Sub(s, i, i + 2) # "%25"
                     ELSE ~IsEscape(Sub(s, i, i + 2))}

\* The three bytes of s from position i.
EscapeAt(s, i) == Sub(s, i, i + 2)

\* The error text of url.unescape for the first bad escape of s.
EscapeError(s, inHost) ==
    "invalid URL escape " \o Quote(EscapeAt(s, MinOf(BadEscapes(s, inHost))))

\* The first position of s that holds one of the characters of S, 0 if none.
IndexAny(s, S) ==
    IF \A i \in 1..Len(s) : SubSeq(s, i, i) \notin S THEN 0
    ELSE CHOOSE i \in 1..Len(s) :
            /\ SubSeq(s, i, i) \in S
            /\ \A j \in 1..(i - 1) : SubSeq(s, j, j) \notin S

\* The %XX form of a character.
Hex(ch) ==
    CASE ch = "?" -> "%3F" [] ch = "/" -> "%2F" [] ch = ":" -> "%3A"
      [] ch = "%" -> "%25"

\* s with the character at position i in its %XX form and the rest as given.
EncodeAt(s, i, rest) == SubSeq(s, 1, i - 1) \o Hex(SubSeq(s, i, i)) \o rest

RECURSIVE EscapeChars(_, _)
\* url.escape: s with every character of S in its %XX form.
EscapeChars(s, S) ==
    IF \A i \in 1..Len(s) : SubSeq(s, i, i) \notin S THEN s
    ELSE EncodeAt(s, IndexAny(s, S),
                  EscapeChars(SubSeq(s, IndexAny(s, S) + 1, Len(s)), S))

\* url.escape(s, encodePath): of the input characters only '?' and '%' are
\* escaped in a path.
PathEscape(s) == EscapeChars(s, {"?", "%"})

\* url.QueryEscape: of the input characters '/', ':', '?' and '%' are
\* escaped in a query component.
QueryEscape(s) == EscapeChars(s, {"/", ":", "?", "%"})

\* url.validOptionalPort: "" or ':' followed by digits only.
validOptionalPort(port) ==
    port = "" \/ (SubSeq(port, 1, 1) = ":" /\ AllIn(SubSeq(port, 2, Len(port)), Digits))

\* The first position of s that holds no scheme character, 0 if none.
SchemeStop(s) ==
    IF \A i \in 1..Len(s) : SubSeq(s, i, i) \in (Letters \cup Digits \cup {"+", "-", "."})
    THEN 0
    ELSE CHOOSE i \in 1..Len(s) :
            /\ SubSeq(s, i, i) \notin (Letters \cup Digits \cup {"+", "-", "."})
            /\ \A j \in 1..(i - 1) :
                  SubSeq(s, j, j) \in (Letters \cup Digits \cup {"+", "-", "."})

\* The scheme of rawURL given the position k where its scheme characters stop.
SchemeUpTo(rawURL, k) ==
    IF k > 1 /\ SubSeq(rawURL, k, k) = ":" /\ SubSeq(rawURL, 1, 1) \in Letters
    THEN SubSeq(rawURL, 1, k - 1)
    ELSE ""

\* url.getScheme: the scheme of rawURL, "" when it has none.
getScheme(rawURL) == SchemeUpTo(rawURL, SchemeStop(rawURL))

\* The error of url.Parse.
parseError(rawURL, m) ==
    [Scheme |-> "", Host |-> "", Path |-> "", RawQuery |-> "",
     err |-> Errorf("parse " \o Quote(rawURL) \o ": " \o m)]

\* The port part of an authority: from its last ':' on, "" without ':'.
colonPort(authority) == FromAt(authority, LastIndex(authority, ":"))

\* url.Parse, last part: the authority and the path are checked and decoded.
parseParts(rawURL, scheme, rawQuery, authority, rawPath) ==
    IF ~validOptionalPort(colonPort(authority))
    THEN parseError(rawURL, "invalid port " \o Quote(colonPort(authority))
                            \o " after host")
    ELSE IF BadEscapes(authority, TRUE) # {}
    THEN parseError(rawURL, EscapeError(authority, TRUE))
    ELSE IF BadEscapes(rawPath, FALSE) # {}
    THEN parseError(rawURL, EscapeError(rawPath, FALSE))
    ELSE [Scheme |-> scheme, Host |-> PathUnescape(authority),
          Path |-> PathUnescape(rawPath), RawQuery |-> rawQuery, err |-> NilErr]

\* url.Parse, the authority: rest has one when it starts with "//", unless
\* there is no scheme and it starts with "///".
parseAuthority(rawURL, scheme, rawQuery, rest) ==
    IF (scheme # "" \/ ~HasPrefix(rest, "///")) /\ HasPrefix(rest, "//")
    THEN parseParts(rawURL, scheme, rawQuery,
                    Before(SubSeq(rest, 3, Len(rest)), "/"),
                    From(SubSeq(rest, 3, Len(rest)), "/"))
    ELSE parseParts(rawURL, scheme, rawQuery, "", rest)

\* url.Parse, the query: what follows the first '?'.
parseQuery(rawURL, scheme, afterScheme) ==
    parseAuthority(rawURL, scheme, After(afterScheme, "?"), Before(afterScheme, "?"))

\* url.Parse, the scheme is cut off with its ':'.
parseScheme(rawURL, scheme) ==
    parseQuery(rawURL, scheme,
               IF scheme = "" THEN rawURL
               ELSE SubSeq(rawURL, Len(scheme) + 2, Len(rawURL)))

\* url.Parse: the URL as [Scheme, Host, Path, RawQuery] and the error.
urlParse(rawURL) ==
    IF SubSeq(rawURL, 1, 1) = ":"
    THEN parseError(rawURL, "missing protocol scheme")
    ELSE parseScheme(rawURL, getScheme(rawURL))

\* URL.String of a url.URL with only Path and RawQuery set, for a path
\* that starts with '/' (every apiPath does): the escaped path, then the query.
urlString(path, rawQuery) ==
    PathEscape(path) \o (IF rawQuery # "" THEN "?" \o rawQuery ELSE "")

(***************************************************************************)
(* Host resolution: parseHost and NewDockerClient.                         *)
(***************************************************************************)
\* A nil *http.Client.
NilClient ==
    [isNil |-> TRUE, DisableCompression |-> FALSE,
     Dial |-> [custom |-> FALSE, protocol |-> "", addr |-> ""]]

\* &http.Client{Transport: new(http.Transport)}: default dialing.
tcpClient ==
    [isNil |-> FALSE, DisableCompression |-> FALSE,
     Dial |-> [custom |-> FALSE, protocol |-> "", addr |-> ""]]

\* The client of a unix address: compression off and transport.Dial set to
\* the closure that captured protocol and addr.
unixClient(protocol, addr) ==
    [isNil |-> FALSE, DisableCompression |-> TRUE,
     Dial |-> [custom |-> TRUE, protocol |-> protocol, addr |-> addr]]

\* The closure func(_, _ string) of parseHost: what it dials when the
\* transport asks for a connection to (network, address).
unixDial(protocol, addr, network, address) ==
    [network |-> protocol, address |-> addr, timeout |-> defaultTimeout]

\* What a client's transport dials to open a connection to (network, address):
\* its Dial function when set, the default dialer (no timeout) otherwise.
transportDial(client, network, address) ==
    IF client.Dial.custom
    THEN unixDial(client.Dial.protocol, client.Dial.addr, network, address)
    ELSE [network |-> network, address |-> address, timeout |-> 0]

\* The results of the tcp branch given the parsed URL and the addr to return.
tcpResult(parsed, addr) ==
    IF ~parsed.err.isNil
    THEN [client |-> NilClient, addr |-> "", basePath |-> "", err |-> parsed.err]
    ELSE [client |-> tcpClient, addr |-> addr, basePath |-> parsed.Path,
          err |-> NilErr]

\* The tcp branch of parseHost after url.Parse: addr = parsed.Host.
tcpParsed(parsed) == tcpResult(parsed, parsed.Host)

\* Mutant of parseTCP: addr = parsed.Host forgotten, the address keeps its path.
parseTCPKeepAddr(addr) == tcpResult(urlParse("tcp://" \o addr), addr)

\* The tcp branch of parseHost.
parseTCP(addr) == tcpParsed(urlParse("tcp://" \o addr))

\* Mutant of parseUnix: the socket path is also returned as the base path,
\* as the path of a tcp address is.
parseUnixPathAsBase(protocol, addr) ==
    IF Len(addr) > SockPathLen
    THEN [client |-> NilClient, addr |-> "", basePath |-> "",
          err |-> Errorf("Unix socket path " \o Quote(addr) \o " is too long")]
    ELSE [client |-> unixClient(protocol, addr), addr |-> addr, basePath |-> addr,
          err |-> NilErr]

\* Mutant of parseUnix: the length test is >= instead of >.
parseUnixOffByOne(protocol, addr) ==
    IF Len(addr) >= SockPathLen
    THEN [client |-> NilClient, addr |-> "", basePath |-> "",
          err |-> Errorf("Unix socket path " \o Quote(addr) \o " is too long")]
    ELSE [client |-> unixClient(protocol, addr), addr |-> addr, basePath |-> "",
          err |-> NilErr]

\* The unix branch of parseHost.
parseUnix(protocol, addr) ==
    IF Len(addr) > SockPathLen
    THEN [client |-> NilClient, addr |-> "", basePath |-> "",
          err |-> Errorf("Unix socket path " \o Quote(addr) \o " is too long")]
    ELSE [client |-> unixClient(protocol, addr), addr |-> addr, basePath |-> "",
          err |-> NilErr]

\* parseHost after the split, with strs of length 2: protocol and addr.
parseSplit(strs) ==
    IF strs[1] = "tcp" THEN parseTCP(strs[2])
    ELSE IF strs[1] = "unix" THEN parseUnix(strs[1], strs[2])
    ELSE [client |-> NilClient, addr |-> "", basePath |-> "",
          err |-> Errorf("Protocol " \o strs[1] \o " not supported")]

\* Mutant of parseHost: a protocol that is not unix is taken for tcp.
parseHostAnyScheme(host) ==
    IF Len(SplitN2(host, "://")) = 1
    THEN [client |-> NilClient, addr |-> "", basePath |-> "",
          err |-> Errorf("unable to parse docker host " \o BQ \o host \o BQ)]
    ELSE IF SplitN2(host, "://")[1] = "unix"
    THEN parseUnix(SplitN2(host, "://")[1], SplitN2(host, "://")[2])
    ELSE parseTCP(SplitN2(host, "://")[2])

\* parseHost(host): the four results (client, addr, basePath, err).
parseHost(host) ==
    IF Len(SplitN2(host, "://")) = 1
    THEN [client |-> NilClient, addr |-> "", basePath |-> "",
          err |-> Errorf("unable to parse docker host " \o BQ \o host \o BQ)]
    ELSE parseSplit(SplitN2(host, "://"))

\* A nil DockerClient.
NilDockerClient ==
    [isNil |-> TRUE, version |-> "", scheme |-> "", addr |-> "", basePath |-> "",
     registry |-> "", client |-> NilClient]

\* NewDockerClient after parseHost returned r.
newClientFrom(host, scheme, version, registry, r) ==
    IF ~r.err.isNil
    THEN [cli |-> NilDockerClient,
          err |-> Errorf("parse docker host " \o BQ \o host \o BQ \o ": " \o r.err.msg)]
    ELSE [cli |-> [isNil |-> FALSE, version |-> version, scheme |-> scheme,
                   addr |-> r.addr, basePath |-> r.basePath,
                   registry |-> registry, client |-> r.client],
          err |-> NilErr]

\* NewDockerClient(host, scheme, version, registry): (DockerClient, error).
NewDockerClient(host, scheme, version, registry) ==
    newClientFrom(host, scheme, version, registry, parseHost(host))

(***************************************************************************)
(* Request construction: ImagePull and the first half of post.             *)
(***************************************************************************)
\* The operation path ImagePull posts to.
imagesCreate == "/images/create"

\* The apiPath of post: base path, version segment, operation path.
apiPath(c, urlPath) ==
    IF c.version # ""
    THEN c.basePath \o "/v" \o TrimPrefix(c.version, "v") \o urlPath
    ELSE c.basePath \o urlPath

RECURSIVE valuesEncode(_)
\* url.Values.Encode of the pairs <<key, value>> given in key order.
valuesEncode(query) ==
    IF query = <<>> THEN ""
    ELSE QueryEscape(query[1][1]) \o "=" \o QueryEscape(query[1][2])
         \o (IF Len(query) > 1 THEN "&" ELSE "")
         \o valuesEncode(Tail(query))

\* No request.
NoReq ==
    [Method |-> "", Host |-> "", Header |-> <<>>, Body |-> "",
     URL |-> [Scheme |-> "", Host |-> "", Path |-> "", RawQuery |-> ""]]

\* http.removeEmptyPort: a host that ends with ':' loses it.
removeEmptyPort(host) ==
    IF Len(host) > 0 /\ SubSeq(host, Len(host), Len(host)) = ":"
    THEN SubSeq(host, 1, Len(host) - 1)
    ELSE host

\* http.NewRequest after url.Parse returned u: the host of the URL loses an
\* empty port and is also the Host of the request.
requestFrom(method, u, body) ==
    IF ~u.err.isNil
    THEN [req |-> NoReq, err |-> u.err]
    ELSE [req |-> [Method |-> method, Host |-> removeEmptyPort(u.Host),
                   Header |-> <<>>, Body |-> body,
                   URL |-> [Scheme |-> u.Scheme, Host |-> removeEmptyPort(u.Host),
                            Path |-> u.Path, RawQuery |-> u.RawQuery]],
          err |-> NilErr]

\* http.NewRequest(method, url, body): the request and the error.
newRequest(method, urlStr, body) == requestFrom(method, urlParse(urlStr), body)

\* Mutant of postFrom: req.URL.Host = cli.addr is left out, the request keeps
\* the host http.NewRequest parsed from the path.
postFromKeepHost(c, header, r) ==
    IF ~r.err.isNil
    THEN [req |-> NoReq, err |-> Errorf("create request: " \o r.err.msg)]
    ELSE [req |-> [r.req EXCEPT !.Header = header, !.Host = "docker",
                                !.URL.Scheme = c.scheme],
          err |-> NilErr]

\* post after http.NewRequest returned r: the "create request" error, or the
\* request with its header, Host, URL.Host and URL.Scheme set.
postFrom(c, header, r) ==
    IF ~r.err.isNil
    THEN [req |-> NoReq, err |-> Errorf("create request: " \o r.err.msg)]
    ELSE [req |-> [r.req EXCEPT !.Header = header, !.Host = "docker",
                                !.URL.Host = c.addr, !.URL.Scheme = c.scheme],
          err |-> NilErr]

\* post up to the send: the request it hands to ctxhttp.Do, or its
\* "create request" error.  A nil body is the empty reader.
postRequest(c, urlPath, query, header, body) ==
    postFrom(c, header,
             newRequest("POST",
                        urlString(apiPath(c, urlPath),
                                  IF Len(query) > 0 THEN valuesEncode(query) ELSE ""),
                        body))

\* Mutant of imagePullArgs: fromImage is the repository without the registry.
imagePullArgsNoRegistry(c, repo, tag) ==
    [urlPath |-> imagesCreate,
     query |-> << <<"fromImage", repo>>, <<"tag", tag>> >>,
     header |-> << <<"X-Registry-Auth", <<"">>>> >>,
     body |-> "",
     streamRespBody |-> TRUE]

\* Mutant of imagePullArgs: post is called with streamRespBody false.
imagePullArgsNoDrain(c, repo, tag) ==
    [urlPath |-> imagesCreate,
     query |-> << <<"fromImage", c.registry \o "/" \o repo>>, <<"tag", tag>> >>,
     header |-> << <<"X-Registry-Auth", <<"">>>> >>,
     body |-> "",
     streamRespBody |-> FALSE]

\* The arguments ImagePull gives to post.
imagePullArgs(c, repo, tag) ==
    [urlPath |-> imagesCreate,
     query |-> << <<"fromImage", c.registry \o "/" \o repo>>, <<"tag", tag>> >>,
     header |-> << <<"X-Registry-Auth", <<"">>>> >>,
     body |-> "",
     streamRespBody |-> TRUE]

\* url.escape(s, encodeHost): of the input characters '/', '?' and '%' are
\* escaped in a host, ':' is not.
HostEscape(s) == EscapeChars(s, {"/", "?", "%"})

\* URL.String of the URL of a request that has a scheme and a path: scheme,
\* "://", the escaped host, the escaped path, the query.
requestURL(req) ==
    req.URL.Scheme \o "://" \o HostEscape(req.URL.Host) \o PathEscape(req.URL.Path)
    \o (IF req.URL.RawQuery # "" THEN "?" \o req.URL.RawQuery ELSE "")

\* The port net/http connects to for a scheme.
schemePort(scheme) ==
    IF scheme = "https" THEN "443" ELSE IF scheme = "http" THEN "80" ELSE ""

\* url.splitHostPort: the position of the last ':' of host when a valid
\* optional port follows it, else 0.
splitColon(host, colon) ==
    IF colon # 0 /\ validOptionalPort(SubSeq(host, colon, Len(host)))
    THEN colon ELSE 0

\* URL.Hostname: host without the port cut at position k (0: no port).
hostnameAt(host, k) == IF k = 0 THEN host ELSE SubSeq(host, 1, k - 1)

\* URL.Port, or the port of the scheme when the host names none.
portAt(host, k, scheme) ==
    IF k = 0 \/ k = Len(host) THEN schemePort(scheme)
    ELSE SubSeq(host, k + 1, Len(host))

\* net.JoinHostPort: a host that holds ':' is put in brackets.
JoinHostPort(host, port) ==
    IF Index(host, ":") # 0
    THEN "[" \o host \o "]:" \o port
    ELSE host \o ":" \o port

\* The dial address of a URL whose host is cut into name and port at k.
joinHostPort(url, k) ==
    JoinHostPort(hostnameAt(url.Host, k), portAt(url.Host, k, url.Scheme))

\* http.canonicalAddr: the address net/http asks the dialer for, the URL's
\* host name joined with its port or the port of the scheme.
canonicalAddr(url) ==
    joinHostPort(url, splitColon(url.Host, LastIndex(url.Host, ":")))

\* http.redirectBehavior: the method of the request that follows a redirect.
redirectMethod(method, status) ==
    IF status \in {307, 308} \/ method \in {"GET", "HEAD"} THEN method ELSE "GET"

\* The Referer that http.Client gives the request that follows a redirect:
\* the URL of the request before, none from https to http.
refererForURL(req, scheme) ==
    IF req.URL.Scheme = "https" /\ scheme = "http" THEN <<>>
    ELSE << <<"Referer", <<requestURL(req)>>>> >>

\* The request http.Client (CheckRedirect nil) sends after req was answered
\* with a redirect status and the Location loc, parsed, an absolute path or
\* an absolute URL: the URL is the Location resolved against the URL of req,
\* a Location without scheme keeps the Host header that post set, the
\* headers are copied, and the body (empty here) goes along with 307 only.
redirectFrom(req, status, loc) ==
    [Method |-> redirectMethod(req.Method, status),
     Host |-> IF req.Host # req.URL.Host /\ loc.Scheme = "" THEN req.Host ELSE "",
     Header |-> req.Header \o
                refererForURL(req, IF loc.Scheme = "" THEN req.URL.Scheme
                                   ELSE loc.Scheme),
     Body |-> "",
     URL |-> [Scheme |-> IF loc.Scheme = "" THEN req.URL.Scheme ELSE loc.Scheme,
              Host |-> IF loc.Scheme = "" /\ loc.Host = "" THEN req.URL.Host
                       ELSE loc.Host,
              Path |-> loc.Path, RawQuery |-> loc.RawQuery]]

redirectRequest(req, status, location) ==
    redirectFrom(req, status, urlParse(location))

(***************************************************************************)
(* State.                                                                  *)
(*   args    the arguments of NewDockerClient                              *)
(*   res     the results of parseHost and the error of NewDockerClient     *)
(*   cli     the dockerClient (nil before construction and on failure)     *)
(*   dialed  the connections the client's transport has opened             *)
(*   call    per ImagePull call: the locals of ImagePull and post, the     *)
(*           state of its context (ctxErr), the request the client is      *)
(*           sending for it (wire: the request of post, or the one that    *)
(*           follows a redirect), the number of requests it has handed to  *)
(*           the transport (sent) and whether the transport was asked for  *)
(*           a connection for the current one (gotConn)                    *)
(*   conn    per call: the response stream as the transport delivers it;   *)
(*           end is open, closed (the body ended), failed (the connection  *)
(*           broke) or aborted (the transport acted on a done context)     *)
(***************************************************************************)
Calls == 1..NumCalls

\* The statuses that http.Client follows with a further request when the
\* response names a Location: 307 repeats the method, 302 turns a POST into
\* a GET.
RedirectStatuses == {302, 307}

\* The statuses the daemon answers with.
Statuses == {StatusOK, 500} \cup RedirectStatuses

\* The daemon has the image in the request's query: r:5/app and no other.
HasImage(req) == Index(req.URL.RawQuery, "fromImage=r%3A5%2Fapp&") = 1

\* The daemon the calls run against serves the versioned API and sends a
\* request for the unversioned path on to it with a redirect, 307 for a pull
\* of the image it has and 302 for any other; at a versioned path it answers
\* 200 to a pull of the image it has and 500 to any other pull.
DaemonStatus(req) ==
    IF req.URL.Path = imagesCreate
    THEN (IF HasImage(req) THEN 307 ELSE 302)
    ELSE (IF HasImage(req) THEN StatusOK ELSE 500)

\* The Location of the daemon's redirect: the versioned path on the same
\* daemon, with the query of the request.
DaemonLocation(req) ==
    "/v1.24" \o req.URL.Path \o "?" \o req.URL.RawQuery

\* The k-th chunk of the body the daemon streams after a status.
BodyChunk(status, k) ==
    IF status = StatusOK
    THEN (IF k = 1 THEN "{\"status\":\"Pulling\"}" ELSE "{\"status\":\"Done\"}")
    ELSE (IF k = 1 THEN "no such image" ELSE "\n")

\* No response yet, or the response released by Body.Close.
NoConn == [status |-> 0, chunks |-> <<>>, end |-> "open"]

\* A call that has not started.
IdleCall ==
    [pc |-> "idle", ctxErr |-> "", urlPath |-> "", req |-> NoReq,
     wire |-> NoReq,
     streamRespBody |-> FALSE, sent |-> 0, gotConn |-> FALSE, status |-> 0,
     bodyOpen |-> FALSE,
     nread |-> 0, buf |-> "", eof |-> FALSE, err |-> NilErr]

NotResolved ==
    [done |-> FALSE,
     parsed |-> [client |-> NilClient, addr |-> "", basePath |-> "", err |-> NilErr],
     err |-> NilErr]

(***************************************************************************)
(* Construction.                                                           *)
(***************************************************************************)
\* NewDockerClient on the arguments args.
NewClient ==
    /\ ~res.done
    /\ res' = [done |-> TRUE,
               parsed |-> parseHost(args.host),
               err |-> NewDockerClient(args.host, args.scheme, args.version,
                                       args.registry).err]
    /\ cli' = NewDockerClient(args.host, args.scheme, args.version,
                              args.registry).cli
    /\ UNCHANGED <<args, dialed, call, conn>>

\* The record of one connection opened by the transport: what it was asked
\* for and what was dialed.
DialRecord(client, network, address) ==
    [network |-> network, address |-> address,
     dialed |-> transportDial(client, network, address)]

\* The transport of the client opens a connection for (network, address).
OpenConn(network, address) ==
    /\ ~cli.isNil
    /\ dialed' = dialed \cup {DialRecord(cli.client, network, address)}
    /\ UNCHANGED <<args, res, cli, call, conn>>

(***************************************************************************)
(* ImagePull and post, one call c.                                         *)
(***************************************************************************)
Reading(c) == call[c].pc \in {"readErrResp", "drain"}

\* post returns err: the deferred Body.Close runs when a response was
\* obtained, the response stream is released and the locals of ReadAll are
\* gone; sawEOF tells whether ReadAll had reached the end of the body.
Return(c, err, sawEOF) ==
    /\ call' = [call EXCEPT ![c] = [@ EXCEPT !.pc = "done", !.err = err,
                                             !.eof = sawEOF, !.bodyOpen = FALSE,
                                             !.gotConn = FALSE,
                                             !.nread = 0, !.buf = ""]]
    /\ conn' = [conn EXCEPT ![c] = NoConn]

\* post, for call c, once the request is built or has failed (r): it returns
\* the "create request" error, or enters ctxhttp.Do with the request.
postSend(c, a, r) ==
    IF ~r.err.isNil
    THEN call' = [call EXCEPT ![c] = [@ EXCEPT !.pc = "done",
                                              !.urlPath = a.urlPath,
                                              !.err = r.err]]
    ELSE call' = [call EXCEPT ![c] =
                    [@ EXCEPT !.pc = "sending",
                              !.urlPath = a.urlPath,
                              !.req = r.req,
                              !.wire = r.req,
                              !.streamRespBody = a.streamRespBody,
                              !.sent = @ + 1]]

\* post(ctx, urlPath, query, header, body, streamRespBody) with the
\* arguments a, for call c, up to the send.
post(c, a) ==
    postSend(c, a, postRequest(cli, a.urlPath, a.query, a.header, a.body))

\* Mutant of ImagePull: post keeps the path it built in cli.basePath
\* instead of a local, so every call lengthens the base path.
ImagePullKeepsPath(c, repo, tag) ==
    /\ ~cli.isNil
    /\ call[c].pc = "idle"
    /\ post(c, imagePullArgs(cli, repo, tag))
    /\ cli' = [cli EXCEPT !.basePath = apiPath(cli, imagesCreate)]
    /\ UNCHANGED <<args, res, dialed, conn>>

\* ImagePull(ctx, repo, tag) is called: it builds the arguments of post, post
\* builds the request and either fails with "create request" or enters
\* ctxhttp.Do.
ImagePull(c, repo, tag) ==
    /\ ~cli.isNil
    /\ call[c].pc = "idle"
    /\ post(c, imagePullArgs(cli, repo, tag))
    /\ UNCHANGED <<args, res, cli, dialed, conn>>

\* Inside ctxhttp.Do the transport asks for a connection to the address of
\* the URL, while the context is live: it dials that address (the dial may
\* fail), or takes an idle connection it had dialed for it.  A URL without
\* host is refused before that.
GetConn(c) ==
    /\ call[c].pc = "sending"
    /\ call[c].ctxErr = ""
    /\ ~call[c].gotConn
    /\ call[c].wire.URL.Host # ""
    /\ call' = [call EXCEPT ![c].gotConn = TRUE]
    /\ dialed' = dialed \cup
          {DialRecord(cli.client, "tcp", canonicalAddr(call[c].wire.URL))}
    /\ UNCHANGED <<args, res, cli, conn>>

\* Mutant of Cancel: the calls share one context, so cancelling one call
\* cancels every call in flight.
CancelAll(c) ==
    /\ call[c].pc \in {"sending", "readErrResp", "drain"}
    /\ call[c].ctxErr = ""
    /\ call' = [d \in Calls |->
                  IF call[d].pc \in {"sending", "readErrResp", "drain"}
                  THEN [call[d] EXCEPT !.ctxErr = "context canceled"]
                  ELSE call[d]]
    /\ UNCHANGED <<args, res, cli, dialed, conn>>

\* The caller cancels the context of a call that has not returned.  The
\* transport acts on it in a step of its own (SendCancelled, Abort).
Cancel(c) ==
    /\ call[c].pc \in {"sending", "readErrResp", "drain"}
    /\ call[c].ctxErr = ""
    /\ call' = [call EXCEPT ![c].ctxErr = "context canceled"]
    /\ UNCHANGED <<args, res, cli, dialed, conn>>

\* The address the resolver gives for the host names of the inputs, which
\* are names and not IP literals.
ResolvedIP == "192.0.2.1"

\* A dial d can give a connection: not the dial of a socket path that
\* fills the whole path field of the socket address, which connect rejects.
CanConnect(d) ==
    ~(d.network = "unix" /\ Len(d.address) >= SockPathLen
                         /\ ~HasPrefix(d.address, "@"))

\* The errors of a dial d that fails, for a URL whose host is cut into name
\* and port at k: the unix dial of the Dial closure is rejected for a path
\* that fills the path field, else refused at the socket path; the tcp dial
\* of the default transport fails to resolve the host name, or is refused at
\* the resolved address.
dialCauses(d, url, k) ==
    IF d.network = "tcp"
    THEN {"dial tcp: lookup " \o hostnameAt(url.Host, k) \o ": no such host",
          "dial tcp " \o JoinHostPort(ResolvedIP, portAt(url.Host, k, url.Scheme))
              \o ": connect: connection refused"}
    ELSE IF ~CanConnect(d)
    THEN {"dial " \o d.network \o " " \o d.address
              \o ": connect: invalid argument"}
    ELSE {"dial " \o d.network \o " " \o d.address
              \o ": connect: connection refused"}

\* The dial of the transport of a client for a request.
requestDial(client, req) ==
    transportDial(client, "tcp", canonicalAddr(req.URL))

\* A connection that was dialed ends before the response.
connCauses(d) == IF CanConnect(d) THEN {"EOF"} ELSE {}

\* The causes of a send that fails with a live context: a URL without host
\* is refused by the transport before any connection; else the network
\* decides, here a dial that fails or a connection that ends before the
\* response.
SendCauses(client, req) ==
    IF req.URL.Host = "" THEN {"http: no Host in request URL"}
    ELSE dialCauses(requestDial(client, req), req.URL,
                    splitColon(req.URL.Host, LastIndex(req.URL.Host, ":")))
         \cup connCauses(requestDial(client, req))

\* ctxhttp.Do fails while the context is live: the *url.Error of client.Do,
\* which names the method of the first request, the URL of the request that
\* failed and the cause.
SendFail(c) ==
    /\ call[c].pc = "sending"
    /\ call[c].ctxErr = ""
    /\ call[c].gotConn \/ call[c].wire.URL.Host = ""
    /\ \E cause \in SendCauses(cli.client, call[c].wire) :
          Return(c, Errorf("send post request: Post " \o
                           Quote(requestURL(call[c].wire)) \o ": " \o cause), FALSE)
    /\ UNCHANGED <<args, res, cli, dialed>>

\* Mutant of SendCancelled: the request is sent with client.Do alone, whose
\* error for a done context is the *url.Error, not ctx.Err().
SendCancelledURLError(c) ==
    /\ call[c].pc = "sending"
    /\ call[c].ctxErr # ""
    /\ Return(c, Errorf("send post request: Post " \o
                        Quote(requestURL(call[c].req)) \o ": " \o call[c].ctxErr),
              FALSE)
    /\ UNCHANGED <<args, res, cli, dialed>>

\* client.Do fails and the context is done: ctxhttp.Do returns ctx.Err(),
\* whatever the failure was.
SendCancelled(c) ==
    /\ call[c].pc = "sending"
    /\ call[c].ctxErr # ""
    /\ Return(c, Errorf("send post request: " \o call[c].ctxErr), FALSE)
    /\ UNCHANGED <<args, res, cli, dialed>>

\* ctxhttp.Do returns a response with a status: post defers Body.Close and
\* branches on the status code.
TakeResponse(c, status) ==
    IF status # StatusOK \/ call[c].streamRespBody
    THEN /\ call' = [call EXCEPT ![c] =
                       [@ EXCEPT !.pc = IF status # StatusOK
                                        THEN "readErrResp" ELSE "drain",
                                 !.status = status,
                                 !.bodyOpen = TRUE]]
         /\ conn' = [conn EXCEPT ![c] = [@ EXCEPT !.status = status]]
    ELSE /\ call' = [call EXCEPT ![c] =
                       [@ EXCEPT !.pc = "done", !.status = status,
                                 !.err = NilErr, !.bodyOpen = FALSE,
                                 !.gotConn = FALSE]]
         /\ UNCHANGED conn

\* Mutant of Respond: post sends the request again, once, when the answer
\* is not 200.
RespondRetry(c, status) ==
    /\ call[c].pc = "sending"
    /\ call[c].gotConn
    /\ CanConnect(requestDial(cli.client, call[c].wire))
    /\ status \notin RedirectStatuses
    /\ IF status # StatusOK /\ call[c].sent < 2
       THEN /\ call' = [call EXCEPT ![c] = [@ EXCEPT !.sent = @ + 1,
                                                     !.gotConn = FALSE]]
            /\ UNCHANGED conn
       ELSE TakeResponse(c, status)
    /\ UNCHANGED <<args, res, cli, dialed>>

\* The daemon answers with a status that is no redirect, over the connection
\* of the call, and ctxhttp.Do returns the response.  A response that arrives
\* after the context is done, before the transport has acted on it, is
\* returned as well.
Respond(c, status) ==
    /\ call[c].pc = "sending"
    /\ call[c].gotConn
    /\ CanConnect(requestDial(cli.client, call[c].wire))
    /\ status \notin RedirectStatuses
    /\ TakeResponse(c, status)
    /\ UNCHANGED <<args, res, cli, dialed>>

\* The daemon answers the request of the call with a redirect status and a
\* Location: inside the same ctxhttp.Do the client drops the body of the
\* answer and hands the transport the request that follows it, which needs a
\* connection again.  A redirect that arrives after the context is done,
\* before the transport has acted on it, is followed as well, and so is one
\* whose body is dropped while the context becomes done: the transport then
\* refuses the request that follows (no GetConn) and the send fails with
\* ctx.Err().
Redirect(c, status) ==
    /\ call[c].pc = "sending"
    /\ call[c].gotConn
    /\ CanConnect(requestDial(cli.client, call[c].wire))
    /\ status \in RedirectStatuses
    /\ call' = [call EXCEPT ![c] =
                  [@ EXCEPT !.wire = redirectRequest(@, status, DaemonLocation(@)),
                            !.sent = @ + 1,
                            !.gotConn = FALSE]]
    /\ UNCHANGED <<args, res, cli, dialed, conn>>

\* The daemon streams one more chunk of the body.
DaemonWrite(c) ==
    /\ Reading(c)
    /\ conn[c].end = "open"
    /\ Len(conn[c].chunks) < MaxChunks
    /\ conn' = [conn EXCEPT ![c].chunks =
                   Append(@, BodyChunk(conn[c].status, Len(@) + 1))]
    /\ UNCHANGED <<args, res, cli, dialed, call>>

\* The daemon ends the body.
DaemonClose(c) ==
    /\ Reading(c)
    /\ conn[c].end = "open"
    /\ conn' = [conn EXCEPT ![c].end = "closed"]
    /\ UNCHANGED <<args, res, cli, dialed, call>>

\* The connection breaks before the body has ended.
StreamBreak(c) ==
    /\ Reading(c)
    /\ conn[c].end = "open"
    /\ conn' = [conn EXCEPT ![c].end = "failed"]
    /\ UNCHANGED <<args, res, cli, dialed, call>>

\* The transport acts on the done context of a call that reads a body: it
\* closes the connection, and what the call has not read by now is lost.
Abort(c) ==
    /\ Reading(c)
    /\ call[c].ctxErr # ""
    /\ conn[c].end # "aborted"
    /\ conn' = [conn EXCEPT ![c] = [@ EXCEPT !.chunks = <<>>, !.end = "aborted"]]
    /\ UNCHANGED <<args, res, cli, dialed, call>>

\* ioutil.ReadAll reads a chunk that has arrived.
ReadChunk(c) ==
    /\ Reading(c)
    /\ call[c].nread < Len(conn[c].chunks)
    /\ call' = [call EXCEPT ![c] =
                  [@ EXCEPT !.nread = @ + 1,
                            !.buf = @ \o conn[c].chunks[call[c].nread + 1]]]
    /\ UNCHANGED <<args, res, cli, dialed, conn>>

\* The next Read of the body fails: the transport has closed the connection
\* for the done context, or the stream broke and everything that arrived has
\* been read.
ReadFails(c) ==
    \/ conn[c].end = "aborted"
    \/ call[c].nread = Len(conn[c].chunks) /\ conn[c].end = "failed"

\* The error of that Read.
ReadErr(c) ==
    IF conn[c].end = "aborted" THEN call[c].ctxErr ELSE "unexpected EOF"

\* The next Read of the body returns io.EOF: ReadAll returns what it read.
AtEOF(c) ==
    /\ call[c].nread = Len(conn[c].chunks)
    /\ conn[c].end = "closed"

\* Mutant of ReturnReadErrorResp: the error of ReadAll is dropped and the
\* part of the body that was read goes into the daemon error.
ReturnReadErrorRespDropped(c) ==
    /\ call[c].pc = "readErrResp"
    /\ ReadFails(c)
    /\ Return(c, Errorf("Error posting to " \o call[c].urlPath \o ": code " \o
                        Itoa(call[c].status) \o ", err: " \o call[c].buf), FALSE)
    /\ UNCHANGED <<args, res, cli, dialed>>

\* Status not 200, ReadAll of the error body fails.
ReturnReadErrorResp(c) ==
    /\ call[c].pc = "readErrResp"
    /\ ReadFails(c)
    /\ Return(c, Errorf("read error resp: " \o ReadErr(c)), FALSE)
    /\ UNCHANGED <<args, res, cli, dialed>>

\* Mutant of ReturnDaemonError: the message formats err (nil here) instead
\* of errMsg, so the daemon's text is lost.
ReturnDaemonErrorNoBody(c) ==
    /\ call[c].pc = "readErrResp"
    /\ AtEOF(c)
    /\ Return(c, Errorf("Error posting to " \o call[c].urlPath \o ": code " \o
                        Itoa(call[c].status) \o ", err: %!s(<nil>)"), TRUE)
    /\ UNCHANGED <<args, res, cli, dialed>>

\* Mutant of ReturnDaemonError: the message leaves the status code out.
ReturnDaemonErrorNoCode(c) ==
    /\ call[c].pc = "readErrResp"
    /\ AtEOF(c)
    /\ Return(c, Errorf("Error posting to " \o call[c].urlPath \o ", err: " \o
                        call[c].buf), TRUE)
    /\ UNCHANGED <<args, res, cli, dialed>>

\* Status not 200, the error body was read to its end.
ReturnDaemonError(c) ==
    /\ call[c].pc = "readErrResp"
    /\ AtEOF(c)
    /\ Return(c, Errorf("Error posting to " \o call[c].urlPath \o ": code " \o
                        Itoa(call[c].status) \o ", err: " \o call[c].buf), TRUE)
    /\ UNCHANGED <<args, res, cli, dialed>>

\* Mutant of ReturnReadBodyError: the error of ReadAll is dropped, so a
\* drain that failed returns nil.
ReturnReadBodyErrorDropped(c) ==
    /\ call[c].pc = "drain"
    /\ ReadFails(c)
    /\ Return(c, NilErr, FALSE)
    /\ UNCHANGED <<args, res, cli, dialed>>

\* Mutant of ReturnReadBodyError: the body is read without the context, so
\* only a broken stream fails the drain and a cancelled call stays blocked.
ReturnReadBodyErrorStreamOnly(c) ==
    /\ call[c].pc = "drain"
    /\ conn[c].end # "aborted"
    /\ call[c].nread = Len(conn[c].chunks) /\ conn[c].end = "failed"
    /\ Return(c, Errorf("read resp body: unexpected EOF"), FALSE)
    /\ UNCHANGED <<args, res, cli, dialed>>

\* Mutant of ReturnReadBodyError: Body.Close is called at the end of post
\* instead of deferred, so this return leaves the body open.
ReturnReadBodyErrorNoClose(c) ==
    /\ call[c].pc = "drain"
    /\ ReadFails(c)
    /\ call' = [call EXCEPT ![c] =
                  [@ EXCEPT !.pc = "done", !.nread = 0, !.buf = "",
                            !.err = Errorf("read resp body: " \o ReadErr(c))]]
    /\ conn' = [conn EXCEPT ![c] = NoConn]
    /\ UNCHANGED <<args, res, cli, dialed>>

\* Status 200, ReadAll of the streamed body fails.
ReturnReadBodyError(c) ==
    /\ call[c].pc = "drain"
    /\ ReadFails(c)
    /\ Return(c, Errorf("read resp body: " \o ReadErr(c)), FALSE)
    /\ UNCHANGED <<args, res, cli, dialed>>

\* Status 200, the body was read to its end: post returns nil.
ReturnSuccess(c) ==
    /\ call[c].pc = "drain"
    /\ AtEOF(c)
    /\ Return(c, NilErr, TRUE)
    /\ UNCHANGED <<args, res, cli, dialed>>

(***************************************************************************)
(* Inputs.                                                                 *)
(***************************************************************************)
\* What stands before the target in the addresses given to parseHost.
Prefixes ==
    {"tcp://", "unix://", "http://", "udp://", "tcpx://", "tcp:/", "unix:",
     "", "://"}

\* What follows the prefix.
Targets ==
    {"", "h", "h:1", "h:1/", "h:1/b", "h:1/b/c", "h:1//b", "h:1/b?q",
     "h:1/b%3Fc", "h%25x:1", "h:x", "h:1//a:b", "a://b", "/s", "/var/run/docker.sock",
     "/" \o Repeat("a", SockPathLen - 2), "/" \o Repeat("a", SockPathLen - 1),
     "/" \o Repeat("a", SockPathLen)}

Hosts == {p \o t : p \in Prefixes, t \in Targets}

Versions == {"", "1.24", "v1.24", "vv1", "v"}

Repos == {"app", "team/app"}

Tags == {"latest", "1.0"}

\* The image each caller pulls: concurrent callers pull different
\* repositories.
CallRepo(c) == IF c % 2 = 1 THEN "app" ELSE "team/app"

CallTag(c) == "latest"

\* The arguments of NewDockerClient that the resolution is checked on.
ResolveArgs ==
    [host : Hosts, scheme : {"http", "https"}, version : Versions,
     registry : {"r:5"}]

\* The clients the calls are run on: a tcp daemon with a base path, a unix
\* socket without version, a tcp address without host, a unix socket whose
\* path fills the path field of the socket address, and a tcp address whose
\* base path makes http.NewRequest fail.
RuntimeArgs ==
    {[host |-> "tcp://h:1/b", scheme |-> "http", version |-> "1.24",
      registry |-> "r:5"],
     [host |-> "unix:///s", scheme |-> "http", version |-> "",
      registry |-> "r:5"],
     [host |-> "tcp://", scheme |-> "http", version |-> "",
      registry |-> "r:5"],
     [host |-> "unix:///" \o Repeat("a", SockPathLen - 1), scheme |-> "http",
      version |-> "", registry |-> "r:5"],
     [host |-> "tcp://h:1//a:b", scheme |-> "https", version |-> "v1.24",
      registry |-> "r:5"]}

\* What the transport may be asked to connect to.
DialArgs == {<<"tcp", "h:1">>, <<"tcp", "docker:80">>}

(***************************************************************************)
(* Specifications.                                                         *)
(***************************************************************************)
\* Resolution: NewDockerClient on any address, then the requests and the
\* connections of the client it returns.
InitResolve ==
    /\ args \in ResolveArgs
    /\ res = NotResolved
    /\ cli = NilDockerClient
    /\ dialed = {}
    /\ call = [c \in Calls |-> IdleCall]
    /\ conn = [c \in Calls |-> NoConn]

NextResolve ==
    \/ NewClient
    \/ \E d \in DialArgs : OpenConn(d[1], d[2])
    \/ \E repo \in Repos, tag \in Tags : ImagePull(1, repo, tag)
    \/ GetConn(1)

SpecResolve == InitResolve /\ [][NextResolve]_vars

\* Calls: the state after a successful NewDockerClient, then ImagePull calls
\* against a daemon.
Init ==
    /\ args \in RuntimeArgs
    /\ res = [done |-> TRUE, parsed |-> parseHost(args.host),
              err |-> NewDockerClient(args.host, args.scheme, args.version,
                                      args.registry).err]
    /\ cli = NewDockerClient(args.host, args.scheme, args.version,
                             args.registry).cli
    /\ dialed = {}
    /\ call = [c \in Calls |-> IdleCall]
    /\ conn = [c \in Calls |-> NoConn]

Step(c) ==
    \/ ImagePull(c, CallRepo(c), CallTag(c))
    \/ GetConn(c)
    \/ Cancel(c)
    \/ Abort(c)
    \/ SendFail(c)
    \/ SendCancelled(c)
    \/ Respond(c, DaemonStatus(call[c].wire))
    \/ Redirect(c, DaemonStatus(call[c].wire))
    \/ DaemonWrite(c)
    \/ DaemonClose(c)
    \/ StreamBreak(c)
    \/ ReadChunk(c)
    \/ ReturnReadErrorResp(c)
    \/ ReturnDaemonError(c)
    \/ ReturnReadBodyError(c)
    \/ ReturnSuccess(c)

Next == \E c \in Calls : Step(c)

Spec == Init /\ [][Next]_vars

\* The steps of call c that are the code's own: returning once ctxhttp.Do or
\* a Read has its answer, reading what has arrived, and the transport acting
\* on a done context.  The daemon's, the network's and the caller's steps
\* (GetConn, Respond, Redirect, DaemonWrite, DaemonClose, StreamBreak,
\* SendFail, Cancel)
\* are not among them.
Progress(c) ==
    \/ SendCancelled(c)
    \/ Abort(c)
    \/ ReadChunk(c)
    \/ ReturnReadErrorResp(c)
    \/ ReturnDaemonError(c)
    \/ ReturnReadBodyError(c)
    \/ ReturnSuccess(c)

\* Calls whose goroutine runs whenever it is runnable.
SpecLive == Spec /\ \A c \in Calls : WF_vars(Progress(c))

(***************************************************************************)
(* Properties.                                                             *)
(***************************************************************************)
Done(c) == call[c].pc = "done"

\* Call c returns in this step.
Returns(c) == call[c].pc # "done" /\ call'[c].pc = "done"

RECURSIVE JoinChunks(_)
\* The body text the daemon has streamed: its chunks in order.
JoinChunks(chunks) ==
    IF chunks = <<>> THEN "" ELSE Head(chunks) \o JoinChunks(Tail(chunks))

\* C1: a call whose response has status 200 returns nil only in a step taken
\* when the daemon has ended the body and ReadAll has read all of it; while
\* the body is only partly sent and not ended the call cannot return nil.
C1_DrainBeforeSuccess ==
    [][\A c \in Calls :
          (Returns(c) /\ call'[c].err.isNil)
          => /\ conn[c].status = StatusOK
             /\ conn[c].end = "closed"
             /\ call[c].nread = Len(conn[c].chunks)]_vars

\* C1 witness: a call returned nil after a 200 body read to its end.
C1_Witness ==
    \E c \in Calls :
        Done(c) /\ call[c].err.isNil /\ call[c].status = StatusOK /\ call[c].eof

\* C2: a call whose response has a status other than 200 never ends with
\* nil, and when its body is read to the end the error it returns carries the
\* operation path, the status code and the whole body text of the daemon.
C2_DaemonError ==
    /\ [](\A c \in Calls :
            (Done(c) /\ call[c].status \notin {0, StatusOK}) => ~call[c].err.isNil)
    /\ [][\A c \in Calls :
            (Returns(c) /\ conn[c].status \notin {0, StatusOK} /\ AtEOF(c))
            => /\ ~call'[c].err.isNil
               /\ Contains(call'[c].err.msg, imagesCreate)
               /\ Contains(call'[c].err.msg, Itoa(conn[c].status))
               /\ Contains(call'[c].err.msg, JoinChunks(conn[c].chunks))]_vars

\* C2 witness: status 500 with body "no such image" gave an error that holds
\* 500 and "no such image".
C2_Witness ==
    \E c \in Calls :
        /\ Done(c) /\ call[c].status = 500
        /\ Contains(call[c].err.msg, "500")
        /\ Contains(call[c].err.msg, "no such image")

\* C3 as claimed: once the context is done while the call waits for the
\* daemon, the call can return, and the only step it takes is to return the
\* send error made of ctx.Err(): never a response, a daemon error or nil.
\* (Fails: a response that arrives before the transport has acted on the
\* done context is returned by ctxhttp.Do, and post goes on to read it.)
C3_CancelBeforeResponse ==
    /\ [](\A c \in Calls :
            (call[c].pc = "sending" /\ call[c].ctxErr # "")
            => ENABLED SendCancelled(c))
    /\ [][\A c \in Calls :
            (call[c].pc = "sending" /\ call[c].ctxErr # "" /\ call'[c] # call[c])
            => /\ call'[c].pc = "done"
               /\ ~call'[c].err.isNil
               /\ call'[c].err.msg = "send post request: " \o call[c].ctxErr
               /\ ~HasPrefix(call'[c].err.msg, "Error posting to ")
               /\ call'[c].status = 0]_vars

\* C3 as amended: once the context is done while the call waits for the
\* daemon, the call can return; when it returns from the send it returns the
\* send error made of ctx.Err(), not nil and not a daemon error, with no
\* response held; and its only other steps are to take a response that the
\* daemon sent over a connection the call already had, or to follow a
\* redirect that the daemon sent over it, with a request that gets no
\* connection.
C3_CancelSendError ==
    /\ [](\A c \in Calls :
            (call[c].pc = "sending" /\ call[c].ctxErr # "")
            => ENABLED SendCancelled(c))
    /\ [][\A c \in Calls :
            (call[c].pc = "sending" /\ call[c].ctxErr # "" /\ call'[c] # call[c])
            => \/ /\ call'[c].pc = "done"
                  /\ ~call'[c].err.isNil
                  /\ call'[c].err.msg = "send post request: " \o call[c].ctxErr
                  /\ ~HasPrefix(call'[c].err.msg, "Error posting to ")
                  /\ call'[c].status = 0
                  /\ ~call'[c].bodyOpen
               \/ /\ call[c].gotConn
                  /\ Reading(c)'
                  /\ call'[c].status # 0
                  /\ call'[c].ctxErr = call[c].ctxErr
               \/ /\ call[c].gotConn
                  /\ DaemonStatus(call[c].wire) \in RedirectStatuses
                  /\ call'[c].pc = "sending"
                  /\ ~call'[c].gotConn
                  /\ call'[c].status = 0
                  /\ call'[c].ctxErr = call[c].ctxErr]_vars

\* C3 witness: a call cancelled before any response returned the send error
\* of the cancellation.
C3_Witness ==
    \E c \in Calls :
        /\ Done(c) /\ call[c].status = 0 /\ call[c].ctxErr = "context canceled"
        /\ call[c].err.msg = "send post request: context canceled"

\* The scheme of an address: the text before its first "://".
SchemeOf(host) == Before(host, "://")

\* C4: for an address without "://", or whose text before the first "://" is
\* neither "tcp" nor "unix", parseHost returns an error with a nil client, an
\* empty host and an empty base path, and NewDockerClient returns a nil
\* client with an error; no resolution returns an error together with a
\* client.
C4_BadAddressFails ==
    res.done
    => /\ (~Contains(args.host, "://") \/ SchemeOf(args.host) \notin {"tcp", "unix"})
          => /\ ~res.parsed.err.isNil
             /\ res.parsed.client.isNil
             /\ res.parsed.addr = ""
             /\ res.parsed.basePath = ""
             /\ ~res.err.isNil
             /\ cli.isNil
       /\ ~res.parsed.err.isNil => (res.parsed.client.isNil /\ cli.isNil)

\* C4 witness: an address with a scheme other than tcp and unix was refused.
C4_Witness ==
    /\ res.done
    /\ Contains(args.host, "://")
    /\ SchemeOf(args.host) \notin {"tcp", "unix", ""}
    /\ cli.isNil /\ ~res.err.isNil

\* The path of a unix address.
UnixPath(host) == SubSeq(host, Len("unix://") + 1, Len(host))

\* C5: for an address unix://<path>, a path no longer than the socket path
\* limit resolves to a client whose every connection dials <path> on the unix
\* network whatever it was asked for; a longer path fails with the too-long
\* error and gives no client nor transport.
C5_UnixSocket ==
    (res.done /\ HasPrefix(args.host, "unix://"))
    => IF Len(UnixPath(args.host)) <= SockPathLen
       THEN /\ res.parsed.err.isNil /\ res.err.isNil
            /\ ~res.parsed.client.isNil /\ ~cli.isNil
            /\ \A d \in dialed :
                  /\ d.dialed.network = "unix"
                  /\ d.dialed.address = UnixPath(args.host)
       ELSE /\ ~res.parsed.err.isNil /\ ~res.err.isNil
            /\ Contains(res.parsed.err.msg, "is too long")
            /\ res.parsed.client.isNil /\ cli.isNil
            /\ dialed = {}

\* C5 witness: a path of exactly the limit resolved, and its transport was
\* asked for a tcp connection and dialed the socket.
C5_Witness ==
    /\ res.done /\ HasPrefix(args.host, "unix://")
    /\ Len(UnixPath(args.host)) = SockPathLen
    /\ \E d \in dialed : d.network = "tcp" /\ d.dialed.address = UnixPath(args.host)

\* The text of a tcp address after "tcp://", without its query.
TCPRest(host) == Before(SubSeq(host, Len("tcp://") + 1, Len(host)), "?")

\* host:port with a name of letters, digits, '.' and '-' and a decimal port.
IsHostPort(hp) ==
    /\ Before(hp, ":") # "" /\ AllIn(Before(hp, ":"), Letters \cup Digits \cup {".", "-"})
    /\ After(hp, ":") # "" /\ AllIn(After(hp, ":"), Digits)

\* A valid address tcp://host:port[/path] whose path has no escapes.
ValidTCP(host) ==
    /\ HasPrefix(host, "tcp://")
    /\ IsHostPort(Before(TCPRest(host), "/"))
    /\ ~Contains(From(TCPRest(host), "/"), "%")

\* C6: a valid address tcp://host:port[/path] resolves without error to the
\* effective host host:port and to the base path that is the path of the URL,
\* the empty string when the address has no path.
C6_TCPAddress ==
    (res.done /\ ValidTCP(args.host))
    => /\ res.parsed.err.isNil /\ res.err.isNil /\ ~cli.isNil
       /\ res.parsed.addr = Before(TCPRest(args.host), "/")
       /\ cli.addr = Before(TCPRest(args.host), "/")
       /\ res.parsed.basePath = From(TCPRest(args.host), "/")
       /\ cli.basePath = From(TCPRest(args.host), "/")
       /\ ~Contains(TCPRest(args.host), "/") => cli.basePath = ""

\* C6 witness: an address with a path resolved to its host:port and path.
C6_Witness ==
    /\ res.done /\ ValidTCP(args.host)
    /\ cli.addr = "h:1" /\ cli.basePath = "/b/c"

\* The version segment of a request path.
VersionSegment(version) ==
    IF version = "" THEN ""
    ELSE IF SubSeq(version, 1, 1) = "v" THEN "/" \o version
    ELSE "/v" \o version

\* C7: the path of every request is base path, version segment, operation
\* path.  (Fails: a base path that starts with "//" is lost.)
C7_RequestPath ==
    \A c \in Calls :
        call[c].pc = "sending"
        => call[c].req.URL.Path =
              cli.basePath \o VersionSegment(cli.version) \o imagesCreate

\* C8: a call that has returned holds no open response body, whatever the
\* exit: success, daemon error, read failure, cancellation, or a send that
\* failed.
C8_BodyClosed ==
    \A c \in Calls : Done(c) => ~call[c].bodyOpen

\* C8 witness: a call that had a 200 response returned an error of the drain.
C8_Witness ==
    \E c \in Calls :
        /\ Done(c) /\ call[c].status = StatusOK
        /\ HasPrefix(call[c].err.msg, "read resp body: ")

C10_ErrorContext ==
    \A c \in Calls :
        (Done(c) /\ ~call[c].err.isNil)
        => /\ Contains(call[c].err.msg, call[c].urlPath)
           /\ call[c].status # 0 => Contains(call[c].err.msg, Itoa(call[c].status))

\* C10 as amended: every error names the step that failed, the step fits the
\* response (none, not 200, 200), and the error of a non-200 response whose
\* body was read carries the operation path and the status code.
C10_ErrorStep ==
    \A c \in Calls :
        (Done(c) /\ ~call[c].err.isNil)
        => LET m == call[c].err.msg
           IN  /\ call[c].status = 0
                  => \/ HasPrefix(m, "create request: ")
                     \/ HasPrefix(m, "send post request: ")
               /\ call[c].status = StatusOK => HasPrefix(m, "read resp body: ")
               /\ call[c].status \notin {0, StatusOK}
                  => \/ HasPrefix(m, "read error resp: ")
                     \/ /\ HasPrefix(m, "Error posting to " \o call[c].urlPath)
                        /\ Contains(m, "code " \o Itoa(call[c].status))

\* C10 witness: the error of a non-200 response whose body was read.
C10_Witness ==
    \E c \in Calls :
        /\ Done(c) /\ call[c].status = 500
        /\ HasPrefix(call[c].err.msg, "Error posting to /images/create: code 500")

\* A key=value piece of a query, decoded.
PairOf(kv) == <<PathUnescape(Before(kv, "=")), PathUnescape(After(kv, "="))>>

RECURSIVE QueryPairs(_)
\* The pairs a daemon reads from a raw query: its pieces between '&', each
\* cut at '=' and decoded.
QueryPairs(rawQuery) ==
    IF rawQuery = "" THEN <<>>
    ELSE <<PairOf(Before(rawQuery, "&"))>> \o QueryPairs(After(rawQuery, "&"))

\* Call c is between its send and its return.
InFlight(c) == call[c].pc \in {"sending", "readErrResp", "drain"}

\* This step changes something of call c: its locals or its response stream.
Touches(c) == call'[c] # call[c] \/ conn'[c] # conn[c]

\* C11: with calls running concurrently on one client, the request of a call
\* is set once, to the one built from the configuration and its own
\* repository and tag; every step changes the locals and the response stream of
\* one call only; a call that has returned keeps its result; and a result
\* that names a cancellation belongs to a call whose own context was
\* cancelled, a nil result to a call whose own 200 body ended.
C11_CallIsolation ==
    /\ [][\A c \in Calls :
            call'[c].req # call[c].req
            => /\ call[c].req = NoReq
               /\ call'[c].req =
                    postRequest(cli, imagesCreate,
                                imagePullArgs(cli, CallRepo(c), CallTag(c)).query,
                                imagePullArgs(cli, CallRepo(c), CallTag(c)).header,
                                "").req
               /\ QueryPairs(call'[c].req.URL.RawQuery) =
                    << <<"fromImage", cli.registry \o "/" \o CallRepo(c)>>,
                       <<"tag", CallTag(c)>> >>]_vars
    /\ [](\A c \in Calls :
            Done(c)
            => /\ Contains(call[c].err.msg, "context canceled")
                  => call[c].ctxErr = "context canceled"
               /\ call[c].err.isNil => (call[c].status = StatusOK /\ call[c].eof))
    /\ [][\A c \in Calls, d \in Calls :
            (c # d) => ~(Touches(c) /\ Touches(d))]_vars
    /\ [][\A c \in Calls :
            Done(c) => (call'[c] = call[c] /\ conn'[c] = conn[c])]_vars

\* C11 witness: call 2 was cancelled while it read its error body and
\* returned the error while call 1, sent with another request, still drains
\* its own body.
C11_Witness ==
    /\ call[1].pc = "drain" /\ call[1].ctxErr = ""
    /\ Len(conn[1].chunks) > 0
    /\ Done(2) /\ call[2].err.msg = "read error resp: context canceled"
    /\ call[1].req # NoReq /\ call[2].req # NoReq /\ call[1].req # call[2].req

\* C12: after construction the client keeps its configuration: version,
\* scheme and registry are the arguments of NewDockerClient, host, base path
\* and transport are the results of parseHost, and no step of any call,
\* whether it succeeds, fails or is cancelled, changes any of them.
C12_ConfigFixed ==
    /\ [](~cli.isNil
          => /\ cli.version = args.version
             /\ cli.scheme = args.scheme
             /\ cli.registry = args.registry
             /\ cli.addr = res.parsed.addr
             /\ cli.basePath = res.parsed.basePath
             /\ cli.client = res.parsed.client)
    /\ [][cli' = cli /\ res' = res /\ args' = args]_vars

\* C12 witness: on the client of tcp://h:1/b one call has returned nil and
\* another has returned an error after its context was cancelled, and the
\* base path and the host are those of the address.
C12_Witness ==
    /\ \E c \in Calls : Done(c) /\ call[c].err.isNil
    /\ \E c \in Calls : Done(c) /\ ~call[c].err.isNil /\ call[c].ctxErr # ""
    /\ cli.basePath = "/b" /\ cli.addr = "h:1" /\ cli.version = "1.24"
    /\ ~cli.client.isNil

\* C13: when a call returns from the drain of a 200 body whose read failed,
\* the error is not nil and is the read error of the drain, not the send
\* error nor the daemon error; a call answered 200 that did not see the end
\* of the body never ends with nil.
C13_DrainFailure ==
    /\ [][\A c \in Calls :
            (Returns(c) /\ call[c].pc = "drain" /\ ReadFails(c))
            => /\ call[c].status = StatusOK
               /\ ~call'[c].err.isNil
               /\ call'[c].err.msg = "read resp body: " \o ReadErr(c)
               /\ ~HasPrefix(call'[c].err.msg, "send post request: ")
               /\ ~HasPrefix(call'[c].err.msg, "Error posting to ")]_vars
    /\ [](\A c \in Calls :
            (Done(c) /\ call[c].status = StatusOK /\ ~call[c].eof)
            => ~call[c].err.isNil)

\* C13 witness: the stream of a 200 response broke and the call returned the
\* read error of the drain.
C13_Witness ==
    \E c \in Calls :
        /\ Done(c) /\ call[c].status = StatusOK /\ ~call[c].eof
        /\ call[c].ctxErr = ""
        /\ call[c].err.msg = "read resp body: unexpected EOF"

\* C14: when a call returns from reading the body of a non-200 response and
\* the read failed, the error is not nil and is the read error of the error
\* body, which is not the daemon error of a body read to its end; such a call
\* never ends with nil.
C14_ErrorBodyReadFailure ==
    /\ [][\A c \in Calls :
            (Returns(c) /\ call[c].pc = "readErrResp" /\ ReadFails(c))
            => /\ call[c].status \notin {0, StatusOK}
               /\ ~call'[c].err.isNil
               /\ call'[c].err.msg = "read error resp: " \o ReadErr(c)
               /\ ~HasPrefix(call'[c].err.msg, "Error posting to ")]_vars
    /\ [](\A c \in Calls :
            (Done(c) /\ call[c].status \notin {0, StatusOK} /\ ~call[c].eof)
            => /\ ~call[c].err.isNil
               /\ HasPrefix(call[c].err.msg, "read error resp: "))

\* C14 witness: the stream of a 500 response broke and the call returned the
\* read error of the error body.
C14_Witness ==
    \E c \in Calls :
        /\ Done(c) /\ call[c].status = 500 /\ ~call[c].eof
        /\ call[c].err.msg = "read error resp: unexpected EOF"

\* C15: whatever the client, the repository and the tag, when
\* ImagePull(repo, tag) issues its request, post was given the operation path
\* "/images/create" and the drain flag, and the request is a POST whose query
\* reads as exactly fromImage = registry/repo and tag = tag, whose only header
\* is X-Registry-Auth with the one value "", and whose body is empty.  (The
\* path of the URL that the operation path ends up in is the matter of C7.)
C15_PullRequest ==
    [][\A repo \in Repos, tag \in Tags :
          (call[1].pc = "idle" /\ call'[1].pc = "sending" /\ ImagePull(1, repo, tag))
          => /\ call'[1].urlPath = "/images/create"
             /\ call'[1].streamRespBody
             /\ call'[1].req.Method = "POST"
             /\ QueryPairs(call'[1].req.URL.RawQuery) =
                  << <<"fromImage", args.registry \o "/" \o repo>>, <<"tag", tag>> >>
             /\ call'[1].req.Header = << <<"X-Registry-Auth", <<"">>>> >>
             /\ call'[1].req.Body = ""]_vars

\* C15 witness: the request for team/app:1.0 from registry r:5 is on its way.
C15_Witness ==
    /\ call[1].pc = "sending"
    /\ call[1].req.Method = "POST"
    /\ call[1].req.URL.RawQuery = "fromImage=r%3A5%2Fteam%2Fapp&tag=1.0"
    /\ call[1].streamRespBody

\* C16: every request the client sends, over the unix or the tcp transport
\* and for every address, version and scheme, has the Host header "docker",
\* the URL host that parseHost resolved and the URL scheme given to
\* NewDockerClient, which is not the scheme of the address.
C16_SyntheticHost ==
    \A c \in Calls :
        call[c].pc = "sending"
        => /\ call[c].req.Host = "docker"
           /\ call[c].req.URL.Host = res.parsed.addr
           /\ call[c].req.URL.Scheme = args.scheme
           /\ call[c].req.URL.Scheme # SchemeOf(args.host)

\* C16 witness: a request of the client of unix:///var/run/docker.sock with
\* scheme https is on its way.
C16_Witness ==
    \E c \in Calls :
        /\ call[c].pc = "sending"
        /\ cli.client.Dial.custom
        /\ call[c].req.Host = "docker"
        /\ call[c].req.URL.Host = "/var/run/docker.sock"
        /\ call[c].req.URL.Scheme = "https"

\* C17 as claimed: a call whose context is cancelled after a 200 status and
\* before the end of the body returns an error that is not nil and is of the
\* kind of a failed send.  (Fails: when the drain is aborted the error is the
\* read error of the drain, "read resp body: context canceled"; and when the
\* end of the body arrives before the transport acts on the done context the
\* call returns nil, which then has seen the end of the body.)
C17_CancelDuringDrain ==
    \A c \in Calls :
        (Done(c) /\ call[c].status = StatusOK /\ call[c].ctxErr # "" /\ ~call[c].eof)
        => /\ ~call[c].err.isNil
           /\ HasPrefix(call[c].err.msg, "send post request: ")

\* Call c waits in a Read of a 200 body that is still open, with nothing
\* left to read and a live context.
BlockedInDrain(c) ==
    /\ call[c].pc = "drain"
    /\ call[c].ctxErr = ""
    /\ conn[c].end = "open"
    /\ call[c].nread = Len(conn[c].chunks)

\* Call c is released: it has not returned, and its context is done or the
\* body it reads has ended or failed.
Released(c) ==
    \/ call[c].pc = "sending" /\ call[c].ctxErr # ""
    \/ Reading(c) /\ (call[c].ctxErr # "" \/ conn[c].end # "open")

\* C18: every released call eventually returns (a released call stays
\* released until it returns and a call that has returned stays so, hence:
\* again and again no call is left released); and the code has no timeout of
\* its own: a call leaves the reading of a body only when the context is done
\* or the stream has ended or failed, and while it waits for an open 200 body
\* with a live context the code has no step to take.
C18_ReturnsWhenReleased ==
    /\ []<>(\A c \in Calls : ~Released(c))
    /\ [][\A c \in Calls :
            /\ Released(c) => (Released(c)' \/ Done(c)')
            /\ Done(c) => Done(c)'
            /\ (Returns(c) /\ Reading(c))
               => (call[c].ctxErr # "" \/ conn[c].end # "open")]_vars
    /\ [](\A c \in Calls : BlockedInDrain(c) => ~ENABLED Progress(c))

\* C18 witness: one call waits for an open 200 body while another, whose
\* body ended, has returned.
C18_Witness ==
    /\ \E c \in Calls : BlockedInDrain(c) /\ Len(conn[c].chunks) > 0
    /\ \E c \in Calls : Done(c) /\ call[c].status # 0 /\ call[c].eof

\* C19: an address unix://<path> that resolves gives the empty base path and
\* <path> itself as the effective host, so every request of its client has
\* the URL host <path> and the path version segment, operation path; and a
\* client with a base path comes from a tcp address.
C19_UnixNoBasePath ==
    res.done
    => /\ (HasPrefix(args.host, "unix://") /\ res.parsed.err.isNil)
          => /\ res.parsed.basePath = "" /\ res.parsed.addr = UnixPath(args.host)
             /\ ~cli.isNil
             /\ cli.basePath = "" /\ cli.addr = UnixPath(args.host)
             /\ \A c \in Calls :
                   call[c].pc # "idle"
                   => /\ call[c].pc = "sending"
                      /\ call[c].req.URL.Host = UnixPath(args.host)
                      /\ call[c].req.URL.Path =
                            VersionSegment(args.version) \o "/images/create"
       /\ (~cli.isNil /\ cli.basePath # "") => HasPrefix(args.host, "tcp://")

\* C19 witness: the client of unix:///var/run/docker.sock with version 1.24
\* has sent a request, and its path is version segment and operation path.
C19_Witness ==
    /\ res.done /\ args.host = "unix:///var/run/docker.sock"
    /\ cli.basePath = ""
    /\ \E c \in Calls :
          /\ call[c].pc = "sending"
          /\ call[c].req.URL.Host = "/var/run/docker.sock"
          /\ call[c].req.URL.Path = "/v1.24/images/create"

====
